---- MODULE Spec2Model ----
(***************************************************************************)
(* Verification model of the experiment harness:                           *)
(*   - final_analysis.py : execute_tests, collect_dataframes,              *)
(*     summarize_rtt, generate_comparison_table, orchestrate               *)
(*   - src/wrappers/ledbat.py : main (the transfer wrapper) and the        *)
(*     collect_metrics sampler it spawns                                   *)
(* Three specifications share the operators below:                         *)
(*   Spec     : orchestrate() run from a clean tree, with re-runs          *)
(*   AggSpec  : the aggregator and the statistics operations applied to    *)
(*              result trees drawn from a bounded set                      *)
(*   LifeSpec : one invocation of the wrapper's main() with the two        *)
(*              processes it supervises                                    *)
(***************************************************************************)
EXTENDS Integers, Sequences, FiniteSets, TLC

VARIABLES
    \* ---- final_analysis.py ----
    pc,          \* position of orchestrate(): "tests", "analyse", "compare", "done", "crashed"
                 \* (AggSpec: "init", "collected", "summarized", "compared")
    exec,        \* number of the current execution of the script (1 = first)
    idx,         \* position of execute_tests' nested loop in CatalogPairs
    results,     \* results/profile_<p>/<algo>/<algo>_cc_log.csv per slot
    logs,        \* logs/metrics_<algo>_*.csv: the shared metrics area
    mclock,      \* filesystem modification clock
    outcome,     \* what execute_tests logged for the latest Run of each pair
    attempted,   \* pairs whose loop body was entered in this execution, in order
    data,        \* the DataFrame held by orchestrate (full_df)
    graphs,      \* graphs/rtt_summary.csv and graphs/algorithm_comparison.csv
    console,     \* warnings printed by the statistics operations
    err,         \* exception that escaped the last operation ("" = none)
    \* ---- src/wrappers/ledbat.py ----
    option,      \* args.option
    lpc,         \* position of main()
    proc,        \* the foreground transfer process
    metrics_proc,\* the Metrics Sampler process
    now,         \* wall clock, seconds since main() was entered
    timeout,     \* the sender's deadline (time.time() + 75)
    pipe         \* chunks buffered in the transfer's stdin pipe

pipeVars == <<pc, exec, idx, results, logs, mclock, outcome, attempted, data, graphs, console, err>>
lifeVars == <<option, lpc, proc, metrics_proc, now, timeout, pipe>>
vars == <<pc, exec, idx, results, logs, mclock, outcome, attempted, data, graphs, console, err,
          option, lpc, proc, metrics_proc, now, timeout, pipe>>

(***************************************************************************)
(* Bounds of the model                                                     *)
(***************************************************************************)
MaxRows == 2        \* rows of the longest metrics file
MaxExecs == 2       \* executions of the script over the same tree
MaxWrites == 2      \* metrics artifacts the scheme processes write in all
ClockStep == 25     \* seconds one step of the wall clock advances
MaxClock == 100     \* the wall clock stops advancing here
PipeCap == 2        \* 1024-byte chunks the transfer's stdin pipe buffers

(***************************************************************************)
(* Run Descriptor Catalog                                                  *)
(***************************************************************************)
CC_ALGOS == <<"cubic", "fillp_sheep", "vegas">>

ProfileIds == <<"1", "2">>

NET_PROFILES ==
    [p \in {"1", "2"} |->
        IF p = "1"
        THEN [name |-> "LTE (Low Latency)", latency |-> 5,
              dl_trace |-> "mahimahi/traces/TMobile-LTE-driving.down",
              ul_trace |-> "mahimahi/traces/TMobile-LTE-driving.up"]
        ELSE [name |-> "LTE (High Latency)", latency |-> 200,
              dl_trace |-> "mahimahi/traces/TMobile-LTE-short.down",
              ul_trace |-> "mahimahi/traces/TMobile-LTE-short.up"]]

\* Mutant of CatalogPairs: the aggregator also visits a directory found under
\* results/ that the catalog does not name.
CatalogPairsAndFoundDirs ==
    [k \in 1..(Len(ProfileIds) * Len(CC_ALGOS)) |->
        <<ProfileIds[((k - 1) \div Len(CC_ALGOS)) + 1],
          CC_ALGOS[((k - 1) % Len(CC_ALGOS)) + 1]>>] \o << <<"1", "bbr">> >>

\* The nested loops "for prof_id in NET_PROFILES: for algo in CC_ALGOS":
\* profiles outer, schemes inner.
CatalogPairs ==
    [k \in 1..(Len(ProfileIds) * Len(CC_ALGOS)) |->
        <<ProfileIds[((k - 1) \div Len(CC_ALGOS)) + 1],
          CC_ALGOS[((k - 1) % Len(CC_ALGOS)) + 1]>>]

Range(s) == {s[i] : i \in DOMAIN s}

CatalogSet == Range(CatalogPairs)

\* Directories under results/ that no catalog pair names.
ForeignPairs == {<<"3", "cubic">>, <<"1", "bbr">>}

Slots == CatalogSet \cup ForeignPairs

\* str.upper() on the scheme names.
Upper(algo) ==
    CASE algo = "cubic" -> "CUBIC"
      [] algo = "fillp_sheep" -> "FILLP_SHEEP"
      [] algo = "vegas" -> "VEGAS"
      [] OTHER -> "?"

(***************************************************************************)
(* Files and DataFrames                                                    *)
(* A metrics file is missing, unparsable ("bad") or a csv with a header    *)
(* and rows.  A cell that pandas holds as NaN is the empty tuple <<>>, a   *)
(* present value v is <<v>>.  "run" is a ghost field: the Run             *)
(* <<exec, profile, scheme>> whose scheme process wrote the series.        *)
(***************************************************************************)
NoFile == [kind |-> "missing", hasLoss |-> FALSE, rows |-> <<>>, run |-> <<>>]

BadFile == [kind |-> "bad", hasLoss |-> FALSE, rows |-> <<>>, run |-> <<>>]

\* The series collect_metrics persists: one row per tick, temporal order.
MkRows(n, hasLoss) ==
    [i \in 1..n |->
        [timestamp |-> 10 * i,
         throughput |-> 3 + i,
         rtt |-> 100 * i,
         loss_rate |-> IF hasLoss THEN <<i % 2>> ELSE <<>>]]

Csv(n, hasLoss, run) == [kind |-> "csv", hasLoss |-> hasLoss, rows |-> MkRows(n, hasLoss), run |-> run]

EmptyDataFrame == [columns |-> {}, rows |-> <<>>]

\* DataFrame.empty
IsEmpty(df) == df.columns = {} \/ df.rows = <<>>

(***************************************************************************)
(* collect_dataframes (final_analysis.py 75-95)                            *)
(***************************************************************************)
\* os.path.isfile(log_file) for the slot of a pair
IsFile(res, pair) == res[pair].kind # "missing"

\* pd.read_csv(log_file): raises on an unparsable file, else the frame with
\* the header's columns and the rows in file order.
ReadCsv(f) ==
    IF f.kind = "csv"
    THEN [raised |-> FALSE,
          df |-> [columns |-> {"timestamp", "throughput", "rtt", "queuing_delay"}
                              \cup (IF f.hasLoss THEN {"loss_rate"} ELSE {}),
                  rows |-> f.rows]]
    ELSE [raised |-> TRUE, df |-> EmptyDataFrame]

\* Mutant of SeqIndex: the index starts at 1.
SeqIndexFromOne(n) == [i \in 1..n |-> i]

\* list(range(len(df)))
SeqIndex(n) == [i \in 1..n |-> i - 1]

\* The five column assignments df["scheme"] = algo ... df["timestamp"] = range
TagFrame(df, prof_id, algo) ==
    [columns |-> df.columns \cup {"scheme", "profile", "profile_name", "latency", "timestamp"},
     rows |-> [i \in 1..Len(df.rows) |->
                 [scheme |-> algo,
                  profile |-> prof_id,
                  profile_name |-> NET_PROFILES[prof_id].name,
                  latency |-> NET_PROFILES[prof_id].latency,
                  timestamp |-> SeqIndex(Len(df.rows))[i],
                  throughput |-> df.rows[i].throughput,
                  rtt |-> df.rows[i].rtt,
                  loss_rate |-> df.rows[i].loss_rate]]]

\* One iteration of the loop body: the frames list after the pair was probed.
\* A missing file prints a warning, a parse failure is caught and printed;
\* both leave frames as it was.
ProbePair(frames, res, pair) ==
    IF IsFile(res, pair)
    THEN IF ReadCsv(res[pair]).raised
         THEN frames
         ELSE Append(frames, TagFrame(ReadCsv(res[pair]).df, pair[1], pair[2]))
    ELSE frames

\* Mutant of FramesUpTo: the try block encloses the loop, so the first parse
\* failure ends it and the later pairs are never probed.
RECURSIVE FramesUntilFailure(_, _)
FramesUntilFailure(res, k) ==
    IF k = 0 THEN <<>>
    ELSE IF \E j \in 1..k :
                IsFile(res, CatalogPairs[j]) /\ ReadCsv(res[CatalogPairs[j]]).raised
         THEN FramesUntilFailure(res, k - 1)
         ELSE ProbePair(FramesUntilFailure(res, k - 1), res, CatalogPairs[k])

\* frames after the first k pairs of the catalog were probed
RECURSIVE FramesUpTo(_, _)
FramesUpTo(res, k) ==
    IF k = 0 THEN <<>>
    ELSE ProbePair(FramesUpTo(res, k - 1), res, CatalogPairs[k])

\* pd.concat(frames, ignore_index=True): union of the columns, rows in list
\* order; a cell of a column the frame lacks is NaN (already <<>> here).
RECURSIVE Concat(_)
Concat(frames) ==
    IF frames = <<>> THEN EmptyDataFrame
    ELSE LET rest == Concat(Tail(frames))
         IN  [columns |-> Head(frames).columns \cup rest.columns,
              rows |-> Head(frames).rows \o rest.rows]

CollectDataframes(res) ==
    LET frames == FramesUpTo(res, Len(CatalogPairs))
    IN  IF frames # <<>> THEN Concat(frames) ELSE EmptyDataFrame

(***************************************************************************)
(* Statistics (final_analysis.py 178-213, 253-283).  Means are exact       *)
(* fractions [num, den]; den = 0 is NaN (the mean of no values).  The      *)
(* order statistics and deviations of the records are not modelled.        *)
(***************************************************************************)
RECURSIVE Sum(_)
Sum(s) == IF s = <<>> THEN 0 ELSE Head(s) + Sum(Tail(s))

\* Series.mean(): NaN cells are skipped
Mean(vals) == [num |-> Sum(vals), den |-> Len(vals)]

Times100(r) == [num |-> 100 * r.num, den |-> r.den]

Zero == [num |-> 0, den |-> 1]

\* Series.unique(): distinct values in order of first appearance
RECURSIVE Unique(_)
Unique(s) ==
    IF s = <<>> THEN <<>>
    ELSE LET init == Unique(SubSeq(s, 1, Len(s) - 1))
             last == s[Len(s)]
         IN  IF last \in Range(init) THEN init ELSE Append(init, last)

Column(rows, c) == [i \in 1..Len(rows) |-> rows[i][c]]

\* data[(data['scheme'] == algo) & (data['profile'] == prof_id)]
Subdata(df, prof_id, algo) ==
    SelectSeq(df.rows, LAMBDA r : r.scheme = algo /\ r.profile = prof_id)

\* the non-NaN cells of loss_rate, as numbers
RECURSIVE LossValues(_)
LossValues(rows) ==
    IF rows = <<>> THEN <<>>
    ELSE (IF Head(rows).loss_rate = <<>> THEN <<>> ELSE <<Head(rows).loss_rate[1]>>)
         \o LossValues(Tail(rows))

RECURSIVE MinOf(_)
MinOf(s) ==
    IF Len(s) = 1 THEN s[1]
    ELSE LET m == MinOf(Tail(s)) IN IF Head(s) < m THEN Head(s) ELSE m

RECURSIVE MaxOf(_)
MaxOf(s) ==
    IF Len(s) = 1 THEN s[1]
    ELSE LET m == MaxOf(Tail(s)) IN IF Head(s) > m THEN Head(s) ELSE m

\* The (profile, scheme) groups the two nested "unique()" loops visit, in order.
GroupOrder(df) ==
    LET profs == Unique(Column(df.rows, "profile"))
        algos == Unique(Column(df.rows, "scheme"))
    IN  [k \in 1..(Len(profs) * Len(algos)) |->
            <<profs[((k - 1) \div Len(algos)) + 1], algos[((k - 1) % Len(algos)) + 1]>>]

NonEmptyGroups(df) ==
    SelectSeq(GroupOrder(df), LAMBDA g : Subdata(df, g[1], g[2]) # <<>>)

RttRecord(df, g) ==
    LET sub == Subdata(df, g[1], g[2])
    IN  [Algorithm |-> Upper(g[2]),
         Profile |-> SelectSeq(df.rows, LAMBDA r : r.profile = g[1])[1].profile_name,
         Latency |-> NET_PROFILES[g[1]].latency,
         AvgRtt |-> Mean(Column(sub, "rtt")),
         MinRtt |-> MinOf(Column(sub, "rtt")),
         MaxRtt |-> MaxOf(Column(sub, "rtt"))]

\* summarize_rtt(data): data['profile'] raises KeyError on a frame without
\* that column; otherwise the records, written only when there are any.
SummarizeRtt(df) ==
    IF "profile" \notin df.columns
    THEN [raised |-> TRUE, records |-> <<>>, wrote |-> FALSE, warned |-> FALSE]
    ELSE LET groups == SelectSeq(NonEmptyGroups(df), LAMBDA g : "rtt" \in df.columns)
             recs == [k \in 1..Len(groups) |-> RttRecord(df, groups[k])]
         IN  [raised |-> FALSE, records |-> recs,
              wrote |-> recs # <<>>, warned |-> recs = <<>>]

ComparisonRecord(df, g) ==
    LET sub == Subdata(df, g[1], g[2])
    IN  [Profile |-> NET_PROFILES[g[1]].name,
         Algorithm |-> Upper(g[2]),
         AvgThroughput |-> Mean(Column(sub, "throughput")),
         AvgRtt |-> Mean(Column(sub, "rtt")),
         AvgLossRate |-> IF "loss_rate" \in df.columns
                         THEN Times100(Mean(LossValues(sub)))
                         ELSE Zero,
         \* ghost: the group the record was computed for
         group |-> g]

\* generate_comparison_table(data)
GenerateComparisonTable(df) ==
    IF "profile" \notin df.columns
    THEN [raised |-> TRUE, records |-> <<>>, wrote |-> FALSE, warned |-> FALSE]
    ELSE LET groups == NonEmptyGroups(df)
             recs == [k \in 1..Len(groups) |-> ComparisonRecord(df, groups[k])]
         IN  [raised |-> FALSE, records |-> recs,
              wrote |-> recs # <<>>, warned |-> recs = <<>>]

NoGraphs == [rtt_summary |-> <<>>, algorithm_comparison |-> <<>>]


(***************************************************************************)
(* execute_tests (final_analysis.py 41-73): one action per way the loop    *)
(* body of the current pair can end.                                       *)
(***************************************************************************)
InLoop == pc = "tests" /\ idx <= Len(CatalogPairs)

CurPair == CatalogPairs[idx]

RunId == <<exec, CurPair[1], CurPair[2]>>

\* What the scheme process invoked by subprocess.run leaves in logs/ when it
\* exits 0: nothing, or one new metrics_<algo>_*.csv holding its series.
Written(wrote) ==
    IF wrote /\ mclock < MaxWrites
    THEN {[scheme |-> CurPair[2], mtime |-> mclock + 1, file |-> Csv(MaxRows, TRUE, RunId)]}
    ELSE {}

\* glob.glob(f"logs/metrics_{algo}_*.csv")
Matching(area, algo) == {a \in area : a.scheme = algo}

\* sorted(..., key=os.path.getmtime, reverse=True)[0]
Newest(area, algo) ==
    CHOOSE a \in Matching(area, algo) : \A b \in Matching(area, algo) : b.mtime <= a.mtime

Logged(status) == [outcome EXCEPT ![CurPair] = [status |-> status, run |-> RunId]]

\* subprocess.run raises CalledProcessError: the error is printed, "continue".
\* (Only a scheme process that exits 0 is modelled as leaving an artifact.)
TestFailed ==
    /\ InLoop
    /\ outcome' = Logged("failed")
    /\ attempted' = Append(attempted, CurPair)
    /\ idx' = idx + 1
    /\ UNCHANGED <<pc, exec, results, logs, mclock, data, graphs, console, err>>
    /\ UNCHANGED lifeVars

\* exit 0, a matching artifact is found and copied into the pair's slot
TestSavedMetrics ==
    /\ InLoop
    /\ \E wrote \in BOOLEAN :
         LET area == logs \cup Written(wrote)
         IN  /\ Matching(area, CurPair[2]) # {}
             /\ logs' = area
             /\ mclock' = mclock + Cardinality(area \ logs)
             /\ results' = [results EXCEPT ![CurPair] = Newest(area, CurPair[2]).file]
    /\ outcome' = Logged("metrics")
    /\ attempted' = Append(attempted, CurPair)
    /\ idx' = idx + 1
    /\ UNCHANGED <<pc, exec, data, graphs, console, err>>
    /\ UNCHANGED lifeVars

\* exit 0, glob finds nothing: the warning is printed
TestNoMetrics ==
    /\ InLoop
    /\ Matching(logs, CurPair[2]) = {}
    /\ outcome' = Logged("metricsless")
    /\ attempted' = Append(attempted, CurPair)
    /\ idx' = idx + 1
    /\ UNCHANGED <<pc, exec, results, logs, mclock, data, graphs, console, err>>
    /\ UNCHANGED lifeVars

\* exit 0, a matching artifact is found and shutil.copy raises OSError: no
\* handler encloses the copy, the exception leaves execute_tests and
\* orchestrate, and the script re-raises it.
TestCopyFailed ==
    /\ InLoop
    /\ \E wrote \in BOOLEAN :
         LET area == logs \cup Written(wrote)
         IN  /\ Matching(area, CurPair[2]) # {}
             /\ logs' = area
             /\ mclock' = mclock + Cardinality(area \ logs)
    /\ outcome' = Logged("copyfailed")
    /\ attempted' = Append(attempted, CurPair)
    /\ pc' = "crashed"
    /\ err' = "OSError"
    /\ UNCHANGED <<exec, idx, results, data, graphs, console>>
    /\ UNCHANGED lifeVars

(***************************************************************************)
(* orchestrate (final_analysis.py 285-307)                                 *)
(***************************************************************************)
\* graphs/ after an operation returned r for the named artifact
WriteGraph(name, r) ==
    IF r.wrote THEN [graphs EXCEPT ![name] = r.records] ELSE graphs

\* execute_tests returned; collect_dataframes, then the early return on an
\* empty frame
OrchCollect ==
    /\ pc = "tests"
    /\ idx > Len(CatalogPairs)
    /\ data' = CollectDataframes(results)
    /\ pc' = IF IsEmpty(data') THEN "done" ELSE "analyse"
    /\ err' = IF IsEmpty(data') THEN "no data collected" ELSE ""
    /\ UNCHANGED <<exec, idx, results, logs, mclock, outcome, attempted, graphs, console>>
    /\ UNCHANGED lifeVars

OrchSummarize ==
    /\ pc = "analyse"
    /\ LET r == SummarizeRtt(data)
       IN  /\ graphs' = WriteGraph("rtt_summary", r)
           /\ console' = IF r.warned THEN console \cup {"no rtt data"} ELSE console
           /\ pc' = IF r.raised THEN "crashed" ELSE "compare"
           /\ err' = IF r.raised THEN "KeyError" ELSE ""
    /\ UNCHANGED <<exec, idx, results, logs, mclock, outcome, attempted, data>>
    /\ UNCHANGED lifeVars

OrchCompare ==
    /\ pc = "compare"
    /\ LET r == GenerateComparisonTable(data)
       IN  /\ graphs' = WriteGraph("algorithm_comparison", r)
           /\ console' = IF r.warned THEN console \cup {"no comparison data"} ELSE console
           /\ pc' = IF r.raised THEN "crashed" ELSE "done"
           /\ err' = IF r.raised THEN "KeyError" ELSE ""
    /\ UNCHANGED <<exec, idx, results, logs, mclock, outcome, attempted, data>>
    /\ UNCHANGED lifeVars

\* The script is started again over the tree the last execution left.
Rerun ==
    /\ pc \in {"done", "crashed"}
    /\ exec < MaxExecs
    /\ exec' = exec + 1
    /\ pc' = "tests"
    /\ idx' = 1
    /\ attempted' = <<>>
    /\ data' = EmptyDataFrame
    /\ console' = {}
    /\ err' = ""
    /\ UNCHANGED <<results, logs, mclock, outcome, graphs>>
    /\ UNCHANGED lifeVars

LifeIdle ==
    /\ option = "none"
    /\ lpc = "idle"
    /\ proc = "none"
    /\ metrics_proc = "none"
    /\ now = 0
    /\ timeout = 0
    /\ pipe = 0

PipeIdle ==
    /\ pc = "idle"
    /\ exec = 1
    /\ idx = 1
    /\ results = [s \in Slots |-> NoFile]
    /\ logs = {}
    /\ mclock = 0
    /\ outcome = [p \in CatalogSet |-> [status |-> "none", run |-> <<>>]]
    /\ attempted = <<>>
    /\ data = EmptyDataFrame
    /\ graphs = NoGraphs
    /\ console = {}
    /\ err = ""

Init ==
    /\ pc = "tests"
    /\ exec = 1
    /\ idx = 1
    /\ results = [s \in Slots |-> NoFile]
    /\ logs = {}
    /\ mclock = 0
    /\ outcome = [p \in CatalogSet |-> [status |-> "none", run |-> <<>>]]
    /\ attempted = <<>>
    /\ data = EmptyDataFrame
    /\ graphs = NoGraphs
    /\ console = {}
    /\ err = ""
    /\ LifeIdle

Next ==
    \/ TestFailed
    \/ TestSavedMetrics
    \/ TestNoMetrics
    \/ TestCopyFailed
    \/ OrchCollect
    \/ OrchSummarize
    \/ OrchCompare
    \/ Rerun

Spec == Init /\ [][Next]_vars

(***************************************************************************)
(* AggSpec: collect_dataframes, summarize_rtt and generate_comparison_     *)
(* table called on their own, over every results tree of a bounded set.    *)
(***************************************************************************)
\* The files a slot of the tree may hold.
FileChoices ==
    {NoFile, BadFile, Csv(0, TRUE, <<>>), Csv(MaxRows, TRUE, <<>>), Csv(1, FALSE, <<>>)}

AggTrees ==
    {t \in [Slots -> FileChoices] :
        \/ \A s \in ForeignPairs : t[s] = NoFile
        \/ \A s \in ForeignPairs : t[s] = Csv(MaxRows, TRUE, <<>>)}

AggInit ==
    /\ pc = "init"
    /\ exec = 1
    /\ idx = 1
    /\ results \in AggTrees
    /\ logs = {}
    /\ mclock = 0
    /\ outcome = [p \in CatalogSet |-> [status |-> "none", run |-> <<>>]]
    /\ attempted = <<>>
    /\ data = EmptyDataFrame
    /\ graphs = NoGraphs
    /\ console = {}
    /\ err = ""
    /\ LifeIdle

AggCollect ==
    /\ pc = "init"
    /\ data' = CollectDataframes(results)
    /\ pc' = "collected"
    /\ UNCHANGED <<exec, idx, results, logs, mclock, outcome, attempted, graphs, console, err>>
    /\ UNCHANGED lifeVars

AggSummarize ==
    /\ pc \in {"init", "collected"}
    /\ LET r == SummarizeRtt(data)
       IN  /\ graphs' = WriteGraph("rtt_summary", r)
           /\ console' = IF r.warned THEN console \cup {"no rtt data"} ELSE console
           /\ err' = IF r.raised THEN "KeyError" ELSE ""
    /\ pc' = "summarized"
    /\ UNCHANGED <<exec, idx, results, logs, mclock, outcome, attempted, data>>
    /\ UNCHANGED lifeVars

AggCompare ==
    /\ pc \in {"init", "collected"}
    /\ LET r == GenerateComparisonTable(data)
       IN  /\ graphs' = WriteGraph("algorithm_comparison", r)
           /\ console' = IF r.warned THEN console \cup {"no comparison data"} ELSE console
           /\ err' = IF r.raised THEN "KeyError" ELSE ""
    /\ pc' = "compared"
    /\ UNCHANGED <<exec, idx, results, logs, mclock, outcome, attempted, data>>
    /\ UNCHANGED lifeVars

AggNext ==
    \/ AggCollect
    \/ AggSummarize
    \/ AggCompare

AggSpec == AggInit /\ [][AggNext]_vars


(***************************************************************************)
(* src/wrappers/ledbat.py: main() and the two processes it supervises.     *)
(* proc:         "none", "running", "exit0", "exit1", "killed"             *)
(* metrics_proc: "none", "running", "exited", "terminated"                 *)
(* The spawns take no time: the clock advances only while main() waits or  *)
(* loops, or after it ended, so that now = 0 when the processes start.     *)
(***************************************************************************)
SendSeconds == 75       \* timeout = time.time() + 75

SamplerDuration == 75   \* collect_metrics(metrics_file, duration=75)

Ended == lpc \in {"returned", "raised"}

\* metrics_proc.terminate(): SIGTERM to a live sampler, nothing otherwise
Terminate(m) == IF m = "running" THEN "terminated" ELSE m

\* if proc.poll() is None: proc.kill()
KillIfAlive(p) == IF p = "running" THEN "killed" ELSE p

\* option "setup": check_call(make) and return; a failing make propagates
MainSetup ==
    /\ lpc = "start"
    /\ option = "setup"
    /\ \E ok \in BOOLEAN : lpc' = IF ok THEN "returned" ELSE "raised"
    /\ UNCHANGED <<option, proc, metrics_proc, now, timeout, pipe>>
    /\ UNCHANGED pipeVars

\* receiver, line 47: the sampler is spawned first; Popen may raise OSError
RecvSpawnSampler ==
    /\ lpc = "start"
    /\ option = "receiver"
    /\ \E ok \in BOOLEAN :
         /\ metrics_proc' = IF ok THEN "running" ELSE metrics_proc
         /\ lpc' = IF ok THEN "recv_call" ELSE "raised"
    /\ UNCHANGED <<option, proc, now, timeout, pipe>>
    /\ UNCHANGED pipeVars

\* receiver, line 51: check_call spawns the transfer; a spawn failure
\* propagates out of main() from here
RecvSpawnTransfer ==
    /\ lpc = "recv_call"
    /\ \E ok \in BOOLEAN :
         /\ proc' = IF ok THEN "running" ELSE proc
         /\ lpc' = IF ok THEN "recv_wait" ELSE "raised"
    /\ UNCHANGED <<option, metrics_proc, now, timeout, pipe>>
    /\ UNCHANGED pipeVars

\* receiver, lines 51-54: check_call returns once the transfer exited with
\* status 0; then metrics_proc.terminate() and return
RecvFinish ==
    /\ lpc = "recv_wait"
    /\ proc = "exit0"
    /\ metrics_proc' = Terminate(metrics_proc)
    /\ lpc' = "returned"
    /\ UNCHANGED <<option, proc, now, timeout, pipe>>
    /\ UNCHANGED pipeVars

\* receiver, line 51: the transfer exited non-zero, check_call raises
\* CalledProcessError; nothing encloses it, line 53 is not reached
RecvError ==
    /\ lpc = "recv_wait"
    /\ proc = "exit1"
    /\ lpc' = "raised"
    /\ UNCHANGED <<option, proc, metrics_proc, now, timeout, pipe>>
    /\ UNCHANGED pipeVars

\* sender, line 58: Popen(cmd, stdin=PIPE)
SendSpawnTransfer ==
    /\ lpc = "start"
    /\ option = "sender"
    /\ \E ok \in BOOLEAN :
         /\ proc' = IF ok THEN "running" ELSE proc
         /\ lpc' = IF ok THEN "send_spawn" ELSE "raised"
    /\ UNCHANGED <<option, metrics_proc, now, timeout, pipe>>
    /\ UNCHANGED pipeVars

\* sender, lines 59-63: the sampler is spawned outside the try block, then the
\* deadline is set
SendSpawnSampler ==
    /\ lpc = "send_spawn"
    /\ \E ok \in BOOLEAN :
         /\ metrics_proc' = IF ok THEN "running" ELSE metrics_proc
         /\ timeout' = IF ok THEN now + SendSeconds ELSE timeout
         /\ lpc' = IF ok THEN "send_loop" ELSE "raised"
    /\ UNCHANGED <<option, proc, now, pipe>>
    /\ UNCHANGED pipeVars

\* the finally block, lines 70-73
Finally ==
    /\ proc' = KillIfAlive(proc)
    /\ metrics_proc' = Terminate(metrics_proc)

\* sender, lines 66-69: one chunk is written and flushed, which needs room in
\* the pipe; then the deadline is tested, and past it the loop breaks into
\* the finally block
SendWrite ==
    /\ lpc = "send_loop"
    /\ proc = "running"
    /\ pipe < PipeCap
    /\ IF now > timeout
       THEN /\ Finally
            /\ pipe' = 0
            /\ lpc' = "returned"
       ELSE /\ pipe' = pipe + 1
            /\ UNCHANGED <<proc, metrics_proc, lpc>>
    /\ UNCHANGED <<option, now, timeout>>
    /\ UNCHANGED pipeVars

\* sender, lines 66-67 with the transfer gone: the write raises
\* BrokenPipeError, the finally block runs and the error propagates
SendWriteFails ==
    /\ lpc = "send_loop"
    /\ proc \in {"exit0", "exit1"}
    /\ Finally
    /\ lpc' = "raised"
    /\ UNCHANGED <<option, now, timeout, pipe>>
    /\ UNCHANGED pipeVars

MainStep ==
    \/ MainSetup
    \/ RecvSpawnSampler
    \/ RecvSpawnTransfer
    \/ RecvFinish
    \/ RecvError
    \/ SendSpawnTransfer
    \/ SendSpawnSampler
    \/ SendWrite
    \/ SendWriteFails

\* The transfer process (ucat-static) exits on its own, with either status.
TransferExit ==
    /\ proc = "running"
    /\ \E st \in {"exit0", "exit1"} : proc' = st
    /\ pipe' = 0
    /\ UNCHANGED <<option, lpc, metrics_proc, now, timeout>>
    /\ UNCHANGED pipeVars

\* The transfer process reads one chunk from its stdin.
TransferRead ==
    /\ proc = "running"
    /\ pipe > 0
    /\ pipe' = pipe - 1
    /\ UNCHANGED <<option, lpc, proc, metrics_proc, now, timeout>>
    /\ UNCHANGED pipeVars

\* collect_metrics, lines 19-32: the sampler leaves its loop after duration
\* seconds, saves the series and exits.
SamplerExit ==
    /\ metrics_proc = "running"
    /\ now >= SamplerDuration
    /\ metrics_proc' = "exited"
    /\ UNCHANGED <<option, lpc, proc, now, timeout, pipe>>
    /\ UNCHANGED pipeVars

Tick ==
    /\ lpc \in {"recv_wait", "send_loop", "returned", "raised"}
    /\ now < MaxClock
    /\ now' = now + ClockStep
    /\ UNCHANGED <<option, lpc, proc, metrics_proc, timeout, pipe>>
    /\ UNCHANGED pipeVars

LifeInit ==
    /\ option \in {"setup", "receiver", "sender"}
    /\ lpc = "start"
    /\ proc = "none"
    /\ metrics_proc = "none"
    /\ now = 0
    /\ timeout = 0
    /\ pipe = 0
    /\ PipeIdle

LifeNext ==
    \/ MainStep
    \/ TransferExit
    \/ TransferRead
    \/ SamplerExit
    \/ Tick

\* main() is a running thread and takes its next step whenever it has one;
\* the clock advances; the sampler runs to its end.  Nothing obliges the
\* transfer process to exit or to read its input.
LifeSpec ==
    /\ LifeInit
    /\ [][LifeNext]_vars
    /\ WF_vars(MainStep)
    /\ WF_vars(Tick)
    /\ WF_vars(SamplerExit)


(***************************************************************************)
(* Properties                                                              *)
(***************************************************************************)
\* Used by the properties only: a file the aggregator can read, and the
\* measured cells of a row.
Readable(f) == f.kind = "csv"

SampleOf(r) == [throughput |-> r.throughput, rtt |-> r.rtt, loss_rate |-> r.loss_rate]

Samples(rows) == [i \in 1..Len(rows) |-> SampleOf(rows[i])]

\* the fraction is a number (not NaN) and that number is 0
IsZero(r) == r.den # 0 /\ r.num = 0

\* C1: whenever main() has returned or propagated a failure in role sender or
\* receiver, neither the transfer process nor the Metrics Sampler is running.
C1_BothStoppedOnEveryExit ==
    (Ended /\ option \in {"receiver", "sender"})
        => (proc # "running" /\ metrics_proc # "running")

\* C2: every invocation of main() eventually returns (or propagates a
\* failure), whatever the transfer process does.
C2_MainEventuallyReturns == <>Ended

\* C3: once execute_tests is over, by returning or by an exception, every
\* pair of the catalog was attempted exactly once, profiles outer, schemes
\* inner.
C3_EveryPairAttempted ==
    pc \in {"analyse", "compare", "done", "crashed"} => attempted = CatalogPairs

\* C4: after aggregation the dataset holds no row of a pair whose most recent
\* Run was logged as failed or as metrics-less.
C4_NoRowsForFailedRuns ==
    pc \in {"analyse", "compare", "done"} =>
        \A pair \in CatalogSet :
            outcome[pair].status \in {"failed", "metricsless"}
                => Subdata(data, pair[1], pair[2]) = <<>>

\* C5: after collect_dataframes the rows of each catalog pair are exactly the
\* rows of its file when that file is readable and none otherwise, every row
\* of the dataset belongs to such a pair, and the dataset is the empty frame
\* when no pair has a readable file.
C5_AggregationIsolatesFailures ==
    pc = "collected" =>
        /\ \A pair \in CatalogSet :
             Samples(Subdata(data, pair[1], pair[2]))
                = IF Readable(results[pair]) THEN Samples(results[pair].rows) ELSE <<>>
        /\ \A i \in DOMAIN data.rows :
             \E pair \in CatalogSet :
                /\ Readable(results[pair])
                /\ data.rows[i].profile = pair[1]
                /\ data.rows[i].scheme = pair[2]
        /\ (\A pair \in CatalogSet : ~Readable(results[pair])) => data = EmptyDataFrame

C5_Witness ==
    /\ pc = "collected"
    /\ results[<<"1", "cubic">>] = NoFile
    /\ results[<<"1", "vegas">>] = BadFile
    /\ Len(results[<<"2", "cubic">>].rows) = MaxRows
    /\ Len(results[<<"2", "vegas">>].rows) = 1
    /\ Len(data.rows) = MaxRows + 1

\* C6: summarize_rtt and generate_comparison_table called on an empty dataset
\* do not raise, write no artifact and print the "no data" warning.
C6_EmptyDatasetHandled ==
    (pc \in {"summarized", "compared"} /\ IsEmpty(data)) =>
        /\ err = ""
        /\ graphs = NoGraphs
        /\ console # {}

\* C7: every row of the collected dataset names a profile of NET_PROFILES and
\* a scheme of CC_ALGOS, carries that profile's name and latency, and was
\* parsed from the file in the slot of that pair.
C7_RowsCarryCatalogMetadata ==
    pc = "collected" =>
        \A i \in DOMAIN data.rows :
            LET r == data.rows[i]
            IN  /\ r.profile \in DOMAIN NET_PROFILES
                /\ r.scheme \in Range(CC_ALGOS)
                /\ r.profile_name = NET_PROFILES[r.profile].name
                /\ r.latency = NET_PROFILES[r.profile].latency
                /\ Readable(results[<<r.profile, r.scheme>>])
                /\ r.timestamp + 1 \in DOMAIN results[<<r.profile, r.scheme>>].rows
                /\ SampleOf(r) = SampleOf(results[<<r.profile, r.scheme>>].rows[r.timestamp + 1])

C7_Witness ==
    /\ pc = "collected"
    /\ \A s \in ForeignPairs : Readable(results[s]) /\ results[s].rows # <<>>
    /\ \E i \in DOMAIN data.rows : data.rows[i].latency = 5
    /\ \E i \in DOMAIN data.rows : data.rows[i].latency = 200

\* C8: in the collected dataset the rows of one pair keep the order of the
\* pair's file and their timestamp column is 0, 1, ..., n-1.
C8_SequenceIndexPerRun ==
    pc = "collected" =>
        \A pair \in CatalogSet :
            LET sub == Subdata(data, pair[1], pair[2])
            IN  \A i \in DOMAIN sub :
                    /\ sub[i].timestamp = i - 1
                    /\ i \in DOMAIN results[pair].rows
                    /\ SampleOf(sub[i]) = SampleOf(results[pair].rows[i])

C8_Witness ==
    /\ pc = "collected"
    /\ Len(Subdata(data, "1", "cubic")) = MaxRows
    /\ Len(Subdata(data, "1", "vegas")) = MaxRows
    /\ Len(Subdata(data, "2", "cubic")) = 1
    /\ data.rows[MaxRows + 1].timestamp = 0

\* C9: in the comparison table the average loss rate of a group is 0 when the
\* group's file has no loss_rate column, and 100 times the mean of the file's
\* loss_rate values when it has one.
C9_LossDefaultsToZeroPerGroup ==
    pc = "compared" =>
        \A k \in DOMAIN graphs.algorithm_comparison :
            LET rec == graphs.algorithm_comparison[k]
                f == results[rec.group]
            IN  IF f.hasLoss
                THEN rec.AvgLossRate = Times100(Mean(LossValues(f.rows)))
                ELSE IsZero(rec.AvgLossRate)

\* C10: the file execute_tests stored for a Run whose metrics it logged as
\* saved is a series written during that Run.
C10_CopiedSeriesIsOwn ==
    \A pair \in CatalogSet :
        outcome[pair].status = "metrics" => results[pair].run = outcome[pair].run


====
